---------------------------- MODULE Spec2Model ----------------------------
(***************************************************************************)
(* Candlestick structure engine of GU_PIAO_TO_REDIS: sliding-window        *)
(* extrema, containment merging of bars, turning-point detection and the   *)
(* three-buy / bi-xia pattern matchers.                                    *)
(*                                                                         *)
(* Prices are integers counted in units of half the comparison tolerance   *)
(* (eps = 1e-6 in the source, Eps = 2 here), so that two prices can differ *)
(* by less than eps without being equal, by exactly eps, or by more.       *)
(* Source arrays are 0-based; the sequences here are 1-based, and every    *)
(* index stored in the state (orig_idx, deque entries, turning points) is  *)
(* kept 0-based as in the source: element k of the source is seq[k + 1].   *)
(***************************************************************************)
EXTENDS Integers, Sequences, FiniteSets, TLC

VARIABLES
    high,          \* input window: highs of the bars received so far
    low,           \* input window: lows of the bars received so far
    merged,        \* merge_contained_bars: the output list after the scan so far
    arr,           \* sliding_max / sliding_min: the input array
    window_size,   \* sliding_max / sliding_min: the window
    mode,          \* "max" for sliding_max, "min" for sliding_min
    i,             \* sliding_max / sliding_min: number of loop iterations done
    dq,            \* sliding_max / sliding_min: the deque of indices
    result,        \* sliding_max / sliding_min: the result array
    frac,          \* turning-point array handed to the matchers
    frac5,         \* output of gu_piao_5M_data.identify_turns on the window
    ran,           \* stages run by the last gupiaojichu.identify_turns call
    sig,           \* signals of the three matchers on the window
    scanner,       \* host scanner running: which update_all_stocks / check_all_stocks
    cycle,         \* host scanner: number of polling cycles completed
    pos,           \* host scanner: position of the loop in stock_list
    ok,            \* host scanner: the matcher result of the latest iteration
    triggered_stocks,  \* host scanner: self.triggered_stocks
    alerts,        \* host scanner: alerts raised so far, as <<cycle, code>>
    failures,      \* host scanner: errors logged by the except clause, as <<cycle, code>>
    turns_call,    \* a direct call identify_turns(data_len, high, low) and its outcome
    outcomes,      \* data fetch: what each server of self.servers does when tried
    tried,         \* data fetch: number of servers the loop has tried
    fetched,       \* data fetch: "running", or the result "bars" / "none"
    fetches,       \* data fetch: number of calls started
    cash,          \* run_backtest: available cash, in cents
    position,      \* run_backtest: shares held
    in_position,   \* run_backtest: self.in_position
    stop_loss_price,  \* run_backtest: self.stop_loss_price
    stop_loss_ratio,  \* run_backtest: self.stop_loss_ratio, in percent
    trades,        \* run_backtest: the trades executed on the latest bar
    bars_done,     \* run_backtest: number of rows processed
    close_full,    \* signal generators: closes of the full series
    ma60_full,     \* signal generators: moving-average values of the full series
    buy_signals,   \* calculate_three_buy_signals on the full series
    sell_signals   \* calculate_dynamic_sell_signals on the full series

vars == <<high, low, merged, arr, window_size, mode, i, dq, result,
          frac, frac5, ran, sig,
          scanner, cycle, pos, ok, triggered_stocks, alerts, failures,
          turns_call, outcomes, tried, fetched, fetches,
          cash, position, in_position, stop_loss_price, stop_loss_ratio,
          trades, bars_done,
          close_full, ma60_full, buy_signals, sell_signals>>

slideVars == <<arr, window_size, mode, i, dq, result>>
engineVars == <<high, low, merged, frac, frac5, ran, sig>>
hostVars == <<scanner, cycle, pos, ok, triggered_stocks, alerts, failures>>
fetchVars == <<outcomes, tried, fetched, fetches>>
backtestVars == <<cash, position, in_position, stop_loss_price,
                  stop_loss_ratio, trades, bars_done>>
signalVars == <<close_full, ma60_full, buy_signals, sell_signals>>
appVars == <<turns_call, fetchVars, backtestVars, signalVars>>

-----------------------------------------------------------------------------
(* Bounds *)

MaxPrice == 7        \* merge scan: prices range over 0..MaxPrice
MaxMergeLen == 3     \* merge scan: number of bars scanned
MaxArrLen == 4       \* sliding extrema: length of the array
MaxVal == 2          \* sliding extrema: values range over 0..MaxVal
MaxWindow == 3       \* sliding extrema: windows 1..MaxWindow
MaxTurnLen == 11     \* turning-point detection: bars in the window
MaxRiseLen == 10     \* rising series: bars in the window
MaxMatchLen == 5     \* matchers: bars appended after the history
MaxMisLen == 2       \* matchers: length of each of frac, high, low

(* Program constants *)

Eps == 2             \* eps = 1e-6, in units of 5e-7
NegInf == -1000      \* -math.inf
PosInf == 1000       \* math.inf

-----------------------------------------------------------------------------
(* Arithmetic helpers (Python builtins) *)

Abs(x) == IF x < 0 THEN -x ELSE x
Max2(a, b) == IF a >= b THEN a ELSE b
Min2(a, b) == IF a <= b THEN a ELSE b

Front(s) == SubSeq(s, 1, Len(s) - 1)
Last(s) == s[Len(s)]

-----------------------------------------------------------------------------
(* sliding_max / sliding_min: monotonic deque *)

RECURSIVE PopExpiredLate(_, _, _)
PopExpiredLate(q, k, w) ==
    IF q # <<>> /\ Head(q) < k - w THEN PopExpiredLate(Tail(q), k, w) ELSE q

RECURSIVE PopExpired(_, _, _)
\* lines 19-20 / 42-43: drop the indices that left the window
PopExpired(q, k, w) ==
    IF q # <<>> /\ Head(q) <= k - w THEN PopExpired(Tail(q), k, w) ELSE q

\* keeps a back entry equal to the new value
DominatesStrict(m, back, cur) ==
    IF m = "max" THEN back < cur ELSE back > cur

Dominates(m, back, cur) ==
    IF m = "max" THEN back <= cur ELSE back >= cur

RECURSIVE PopDominated(_, _, _, _)
PopDominated(q, a, k, m) ==
    IF q # <<>> /\ Dominates(m, a[Last(q) + 1], a[k + 1])
    THEN PopDominated(Front(q), a, k, m)
    ELSE q

\* the deque after loop iteration k
SlideDeque(q, a, k, w, m) ==
    Append(PopDominated(PopExpired(q, k, w), a, k, m), k)

\* the result array after loop iteration k, given the deque after it
SlideResult(res, q, a, k, w) ==
    IF k >= w - 1 THEN [res EXCEPT ![k + 1] = a[Head(q) + 1]] ELSE res

Sentinel(m) == IF m = "max" THEN NegInf ELSE PosInf

SlideInitResult(a, m) == [k \in 1..Len(a) |-> Sentinel(m)]

RECURSIVE SlideRun(_, _, _, _, _, _)
SlideRun(a, w, m, k, q, res) ==
    IF k >= Len(a) THEN res
    ELSE LET q2 == SlideDeque(q, a, k, w, m)
         IN SlideRun(a, w, m, k + 1, q2, SlideResult(res, q2, a, k, w))

sliding_max(a, w) == SlideRun(a, w, "max", 0, <<>>, SlideInitResult(a, "max"))
sliding_min(a, w) == SlideRun(a, w, "min", 0, <<>>, SlideInitResult(a, "min"))

-----------------------------------------------------------------------------
(* merge_contained_bars *)

MergedBar(h, l, idx, same) ==
    [high |-> h, low |-> l, orig_idx |-> idx, is_same_value |-> same]

\* containment without the tolerance
IsContainedExact(last_bar, cur) ==
    \/ (cur.high <= last_bar.high /\ cur.low >= last_bar.low)
    \/ (last_bar.high <= cur.high /\ last_bar.low >= cur.low)

IsContained(last_bar, cur) ==
    \/ (cur.high <= last_bar.high + Eps /\ cur.low >= last_bar.low - Eps)
    \/ (last_bar.high <= cur.high + Eps /\ last_bar.low >= cur.low - Eps)

IsUp(last_bar, prev_last) ==
    last_bar.high > prev_last.high + Eps /\ last_bar.low > prev_last.low + Eps

IsDown(last_bar, prev_last) ==
    last_bar.high < prev_last.high - Eps /\ last_bar.low < prev_last.low - Eps

MergeUpSwapped(last_bar, cur) ==
    LET max_high == Max2(last_bar.high, cur.high)
    IN MergedBar(Max2(last_bar.low, cur.low), max_high,
                 IF Abs(max_high - last_bar.high) < Eps
                 THEN last_bar.orig_idx ELSE cur.orig_idx,
                 FALSE)

MergeUp(last_bar, cur) ==
    LET max_high == Max2(last_bar.high, cur.high)
    IN MergedBar(max_high, Max2(last_bar.low, cur.low),
                 IF Abs(max_high - last_bar.high) < Eps
                 THEN last_bar.orig_idx ELSE cur.orig_idx,
                 FALSE)

\* takes the range of the two bars, as without a trend
MergeDownAsRange(last_bar, cur) ==
    LET min_low == Min2(last_bar.low, cur.low)
    IN MergedBar(Max2(last_bar.high, cur.high), min_low,
                 IF Abs(min_low - last_bar.low) < Eps
                 THEN last_bar.orig_idx ELSE cur.orig_idx,
                 FALSE)

MergeDown(last_bar, cur) ==
    LET min_low == Min2(last_bar.low, cur.low)
    IN MergedBar(Min2(last_bar.high, cur.high), min_low,
                 IF Abs(min_low - last_bar.low) < Eps
                 THEN last_bar.orig_idx ELSE cur.orig_idx,
                 FALSE)

MergeNeutral(last_bar, cur) ==
    MergedBar(Max2(last_bar.high, cur.high), Min2(last_bar.low, cur.low),
              last_bar.orig_idx, FALSE)

MergeSingle(last_bar, cur) ==
    LET max_high == Max2(last_bar.high, cur.high)
    IN MergedBar(max_high, Min2(last_bar.low, cur.low),
                 IF Abs(max_high - last_bar.high) < Eps
                 THEN last_bar.orig_idx ELSE cur.orig_idx,
                 FALSE)

\* lines 111-162: the bar that replaces the tail when cur is contained
MergeContained(m, cur) ==
    LET last_bar == Last(m)
    IN IF Len(m) >= 2
       THEN LET prev_last == m[Len(m) - 1]
            IN IF IsUp(last_bar, prev_last) THEN MergeUp(last_bar, cur)
               ELSE IF IsDown(last_bar, prev_last) THEN MergeDown(last_bar, cur)
               ELSE MergeNeutral(last_bar, cur)
       ELSE MergeSingle(last_bar, cur)

FlatValuesEqual(last_bar, curr_high) == Abs(last_bar.high - curr_high) < Eps

FlatOrNotNever(last_bar, is_current_same) == FALSE

\* line 100: a flat bar and a non-flat bar take no part in containment merging
FlatOrNot(last_bar, is_current_same) == last_bar.is_same_value \/ is_current_same

\* appends the merged bar without removing the tail it replaces
MergeStepNoPop(m, k, curr_high, curr_low) ==
    LET is_current_same == Abs(curr_high - curr_low) < Eps
        current_bar == MergedBar(curr_high, curr_low, k, is_current_same)
    IN IF m = <<>> THEN <<current_bar>>
       ELSE LET last_bar == Last(m)
            IN IF /\ is_current_same
                  /\ last_bar.is_same_value
                  /\ FlatValuesEqual(last_bar, curr_high)
               THEN Append(Front(m),
                           MergedBar(last_bar.high, last_bar.low,
                                     last_bar.orig_idx, TRUE))
               ELSE IF FlatOrNot(last_bar, is_current_same)
               THEN Append(m, current_bar)
               ELSE IF ~IsContained(last_bar, current_bar)
               THEN Append(m, current_bar)
               ELSE Append(m, MergeContained(m, current_bar))

\* one iteration of the scan (lines 65-165): bar (curr_high, curr_low) at index k
MergeStep(m, k, curr_high, curr_low) ==
    LET is_current_same == Abs(curr_high - curr_low) < Eps
        current_bar == MergedBar(curr_high, curr_low, k, is_current_same)
    IN IF m = <<>> THEN <<current_bar>>
       ELSE LET last_bar == Last(m)
            IN IF /\ is_current_same
                  /\ last_bar.is_same_value
                  /\ FlatValuesEqual(last_bar, curr_high)
               THEN Append(Front(m),
                           MergedBar(last_bar.high, last_bar.low,
                                     last_bar.orig_idx, TRUE))
               ELSE IF FlatOrNot(last_bar, is_current_same)
               THEN Append(m, current_bar)
               ELSE IF ~IsContained(last_bar, current_bar)
               THEN Append(m, current_bar)
               ELSE Append(Front(m), MergeContained(m, current_bar))

RECURSIVE MergeUpTo(_, _, _)
MergeUpTo(h, l, n) ==
    IF n = 0 THEN <<>>
    ELSE MergeStep(MergeUpTo(h, l, n - 1), n - 1, h[n], l[n])

merge_contained_bars(h, l, data_len) == MergeUpTo(h, l, data_len)

-----------------------------------------------------------------------------
(* gupiaojichu.identify_turns *)

WindowSize == 4      \* window_size = 4

ZeroArrayShort(n) == [k \in 1..(n - 1) |-> 0]

\* line 172: pf_out = [0.0 for _ in range(data_len)]
ZeroArray(n) == [k \in 1..n |-> 0]

ShortInputLoose(data_len) == data_len < 5

\* line 174
ShortInput(data_len) == data_len < 6

Reverse(s) == [k \in 1..Len(s) |-> s[Len(s) + 1 - k]]

RECURSIVE MaxOfSlice(_, _, _)
\* max(s[from:to]) over 0-based from..to-1
MaxOfSlice(s, from, to) ==
    IF from + 1 = to THEN s[from + 1]
    ELSE Max2(s[from + 1], MaxOfSlice(s, from + 1, to))

RECURSIVE MinOfSlice(_, _, _)
MinOfSlice(s, from, to) ==
    IF from + 1 = to THEN s[from + 1]
    ELSE Min2(s[from + 1], MinOfSlice(s, from + 1, to))

\* Trough first, else Peak
MarkKindTroughFirst(current_high, current_low, max_high, min_low) ==
    IF current_low <= min_low + Eps THEN -1
    ELSE IF current_high >= max_high - Eps THEN 1
    ELSE 0

\* the predicate of lines 225-228 and 247-250: Peak first, else Trough
MarkKind(current_high, current_low, max_high, min_low) ==
    IF current_high >= max_high - Eps THEN 1
    ELSE IF current_low <= min_low + Eps THEN -1
    ELSE 0

\* lines 208-228: kind of interior merged bar k (0 = not a candidate)
MarkInterior(mh, ml, pre_max_high, pre_min_low, post_max_high, post_min_low, k) ==
    MarkKind(mh[k + 1], ml[k + 1],
             Max2(pre_max_high[k], post_max_high[k + 2]),
             Min2(pre_min_low[k], post_min_low[k + 2]))

\* lines 232-250: kind of trailing merged bar k
MarkTrailing(mh, ml, pre_max_high, pre_min_low, k) ==
    LET start_prev == Max2(0, k - WindowSize)
        usePre == start_prev = 0 /\ k - 1 >= WindowSize - 1
        max_prev_high == IF usePre THEN pre_max_high[k]
                         ELSE IF start_prev < k THEN MaxOfSlice(mh, start_prev, k)
                         ELSE NegInf
        min_prev_low == IF usePre THEN pre_min_low[k]
                        ELSE IF start_prev < k THEN MinOfSlice(ml, start_prev, k)
                        ELSE PosInf
    IN MarkKind(mh[k + 1], ml[k + 1], max_prev_high, min_prev_low)

RECURSIVE CollectTurns(_, _, _)
\* the pairs (k, kinds[k+1]) with a non-zero kind, for k = from..to-1, in order
CollectTurns(kinds, from, to) ==
    IF from >= to THEN <<>>
    ELSE IF kinds[from + 1] # 0
         THEN <<(<<from, kinds[from + 1]>>)>> \o CollectTurns(kinds, from + 1, to)
         ELSE CollectTurns(kinds, from + 1, to)

\* lines 204-250: the candidate list
CandidateTurns(mh, ml) ==
    LET n == Len(mh)
        pre_max_high == sliding_max(mh, WindowSize)
        pre_min_low == sliding_min(ml, WindowSize)
        post_max_high == Reverse(sliding_max(Reverse(mh), WindowSize))
        post_min_low == Reverse(sliding_min(Reverse(ml), WindowSize))
        start == Max2(0, n - WindowSize)
        interior == [k \in 1..n |->
                       IF k - 1 >= WindowSize /\ k - 1 < n - WindowSize
                       THEN MarkInterior(mh, ml, pre_max_high, pre_min_low,
                                         post_max_high, post_min_low, k - 1)
                       ELSE 0]
        trailing == [k \in 1..n |->
                       IF k - 1 >= start
                       THEN MarkTrailing(mh, ml, pre_max_high, pre_min_low, k - 1)
                       ELSE 0]
    IN CollectTurns(interior, WindowSize, n - WindowSize)
         \o CollectTurns(trailing, start, n)

TurnValue(mh, ml, idx, type) == IF type = 1 THEN mh[idx + 1] ELSE ml[idx + 1]

RECURSIVE RunEnd(_, _, _)
\* first j >= k (0-based position in turns) whose kind differs from type
RunEnd(turns, k, type) ==
    IF k < Len(turns) /\ turns[k + 1][2] = type THEN RunEnd(turns, k + 1, type)
    ELSE k

RECURSIVE RunBest(_, _, _, _, _, _, _)
\* lines 260-265: the most extreme member of the run turns[j..end-1]
RunBest(turns, mh, ml, j, end, type, cur_idx) ==
    IF j >= end THEN cur_idx
    ELSE LET val == TurnValue(mh, ml, turns[j + 1][1], type)
             current_val == TurnValue(mh, ml, cur_idx, type)
             better == (type = 1 /\ val > current_val + Eps)
                       \/ (type = -1 /\ val < current_val - Eps)
         IN RunBest(turns, mh, ml, j + 1, end, type,
                    IF better THEN turns[j + 1][1] ELSE cur_idx)

RECURSIVE CompactFrom(_, _, _, _)
CompactFrom(turns, mh, ml, k) ==
    IF k >= Len(turns) THEN <<>>
    ELSE LET type == turns[k + 1][2]
             end == RunEnd(turns, k + 1, type)
         IN <<(<<RunBest(turns, mh, ml, k + 1, end, type, turns[k + 1][1]), type>>)>>
              \o CompactFrom(turns, mh, ml, end)

\* lines 252-268: consecutive same-kind candidates collapse to the most extreme
CompactTurns(turns, mh, ml) == CompactFrom(turns, mh, ml, 0)

\* the comparisons without the tolerance
IsValidTurnNoEps(prev_type, curr_type, prev_val, curr_val) ==
    IF prev_type = -1 /\ curr_type = 1 THEN curr_val > prev_val
    ELSE IF prev_type = 1 /\ curr_type = -1 THEN curr_val < prev_val
    ELSE FALSE

\* lines 291-296
IsValidTurn(prev_type, curr_type, prev_val, curr_val) ==
    IF prev_type = -1 /\ curr_type = 1 THEN curr_val > prev_val + Eps
    ELSE IF prev_type = 1 /\ curr_type = -1 THEN curr_val < prev_val - Eps
    ELSE FALSE

\* lines 272-301: one iteration of the validation loop
ValidateStep(validated, cand, mh, ml) ==
    IF validated = <<>> THEN <<cand>>
    ELSE LET prev == Last(validated)
         IN IF prev[2] = cand[2] THEN validated
            ELSE IF IsValidTurn(prev[2], cand[2],
                                TurnValue(mh, ml, prev[1], prev[2]),
                                TurnValue(mh, ml, cand[1], cand[2]))
                 THEN Append(validated, cand)
                 ELSE Front(validated)

RECURSIVE ValidateUpTo(_, _, _, _)
ValidateUpTo(new_turns, mh, ml, n) ==
    IF n = 0 THEN <<>>
    ELSE ValidateStep(ValidateUpTo(new_turns, mh, ml, n - 1), new_turns[n], mh, ml)

ValidateTurns(new_turns, mh, ml) == ValidateUpTo(new_turns, mh, ml, Len(new_turns))

RECURSIVE ConfirmFrom(_, _)
ConfirmFrom(new_turns, k) ==
    IF k >= Len(new_turns) - 1 THEN <<>>
    ELSE LET t1 == new_turns[k + 1][2]
             t2 == new_turns[k + 2][2]
         IN IF (t1 = 1 /\ t2 = -1) \/ (t1 = -1 /\ t2 = 1)
            THEN <<new_turns[k + 1]>> \o ConfirmFrom(new_turns, k + 1)
            ELSE ConfirmFrom(new_turns, k + 1)

\* lines 307-315
ConfirmTurns(new_turns) ==
    ConfirmFrom(new_turns, 0)
      \o (IF new_turns # <<>> THEN <<Last(new_turns)>> ELSE <<>>)

RECURSIVE EmitTurnsUnsigned(_, _, _, _)
EmitTurnsUnsigned(pf_out, confirmed, mb, data_len) ==
    IF confirmed = <<>> THEN pf_out
    ELSE LET orig_idx == mb[Head(confirmed)[1] + 1].orig_idx
             written == IF orig_idx < data_len
                        THEN [pf_out EXCEPT ![orig_idx + 1] = 1]
                        ELSE pf_out
         IN EmitTurnsUnsigned(written, Tail(confirmed), mb, data_len)

RECURSIVE EmitTurns(_, _, _, _)
\* lines 317-321
EmitTurns(pf_out, confirmed, mb, data_len) ==
    IF confirmed = <<>> THEN pf_out
    ELSE LET orig_idx == mb[Head(confirmed)[1] + 1].orig_idx
             written == IF orig_idx < data_len
                        THEN [pf_out EXCEPT ![orig_idx + 1] = Head(confirmed)[2]]
                        ELSE pf_out
         IN EmitTurns(written, Tail(confirmed), mb, data_len)

TooFewTurnsNone(validated) == Len(validated) <= 0

\* line 304: too few validated turning points
TooFewTurns(validated) == Len(validated) <= WindowSize

\* lines 169-323; out is the returned array, stages the stages that ran
identify_turns(data_len, h, l) ==
    LET pf_out == ZeroArray(data_len)
    IN IF ShortInput(data_len) THEN [out |-> pf_out, stages |-> {}]
       ELSE
       LET merged_bars == merge_contained_bars(h, l, data_len)
           merged_len == Len(merged_bars)
       IN IF merged_len <= WindowSize * 2
          THEN [out |-> pf_out, stages |-> {"merge"}]
          ELSE
          LET mh == SubSeq([k \in 1..merged_len |-> merged_bars[k].high], 1, merged_len)
              ml == SubSeq([k \in 1..merged_len |-> merged_bars[k].low], 1, merged_len)
              turns == CandidateTurns(mh, ml)
              validated == ValidateTurns(CompactTurns(turns, mh, ml), mh, ml)
          IN IF TooFewTurns(validated)
             THEN [out |-> pf_out,
                   stages |-> {"merge", "extrema", "mark", "compact", "validate"}]
             ELSE [out |-> EmitTurns(pf_out, ConfirmTurns(validated),
                                     merged_bars, data_len),
                   stages |-> {"merge", "extrema", "mark", "compact", "validate",
                               "emit"}]

\* lines 177-303: the lists identify_turns builds on an input of at least 6
\* bars: the merged bars and their highs and lows, the candidates (turns),
\* the compacted candidates (new_turns) and the validated list
TurnStages(data_len, h, l) ==
    LET merged_bars == merge_contained_bars(h, l, data_len)
        merged_len == Len(merged_bars)
        mh == SubSeq([k \in 1..merged_len |-> merged_bars[k].high], 1, merged_len)
        ml == SubSeq([k \in 1..merged_len |-> merged_bars[k].low], 1, merged_len)
        turns == CandidateTurns(mh, ml)
        new_turns == CompactTurns(turns, mh, ml)
    IN [merged_bars |-> merged_bars, merged_high |-> mh, merged_low |-> ml,
        turns |-> turns, new_turns |-> new_turns,
        validated_turns |-> ValidateTurns(new_turns, mh, ml)]

-----------------------------------------------------------------------------
(* gu_piao_5M_data.identify_turns: the detector without merging *)

Call(out) == [raised |-> FALSE, out |-> out]
ValueError == [raised |-> TRUE, out |-> <<>>]

\* lines 45-72: candidates of interior bar k, high test then low test
MarkInterior5(h, l, k) ==
    LET max_prev_next_high == Max2(MaxOfSlice(h, k - 4, k), MaxOfSlice(h, k + 1, k + 5))
        min_prev_next_low == Min2(MinOfSlice(l, k - 4, k), MinOfSlice(l, k + 1, k + 5))
    IN (IF h[k + 1] >= max_prev_next_high THEN <<(<<k, 1>>)>> ELSE <<>>)
         \o (IF l[k + 1] <= min_prev_next_low THEN <<(<<k, -1>>)>> ELSE <<>>)

\* lines 76-94: candidates of trailing bar k
MarkTrailing5(h, l, k) ==
    LET start_prev == Max2(0, k - 4)
        max_prev_high == IF start_prev < k THEN MaxOfSlice(h, start_prev, k) ELSE NegInf
        min_prev_low == IF start_prev < k THEN MinOfSlice(l, start_prev, k) ELSE PosInf
    IN (IF h[k + 1] >= max_prev_high THEN <<(<<k, 1>>)>> ELSE <<>>)
         \o (IF l[k + 1] <= min_prev_low THEN <<(<<k, -1>>)>> ELSE <<>>)

RECURSIVE Interior5From(_, _, _, _)
Interior5From(h, l, k, to) ==
    IF k >= to THEN <<>>
    ELSE MarkInterior5(h, l, k) \o Interior5From(h, l, k + 1, to)

RECURSIVE Trailing5From(_, _, _, _)
Trailing5From(h, l, k, to) ==
    IF k >= to THEN <<>>
    ELSE MarkTrailing5(h, l, k) \o Trailing5From(h, l, k + 1, to)

CandidateTurns5(h, l) ==
    LET data_len == Len(h)
    IN Interior5From(h, l, 4, data_len - 4)
         \o Trailing5From(h, l, Max2(0, data_len - 4), data_len)

RECURSIVE RunBest5(_, _, _, _, _, _, _)
\* lines 105-115: keep the higher high (lower low) of the run, first wins ties
RunBest5(turns, h, l, j, end, type, cur_idx) ==
    IF j >= end THEN cur_idx
    ELSE LET j_index == turns[j + 1][1]
             better == IF type = 1 THEN h[j_index + 1] > h[cur_idx + 1]
                       ELSE l[j_index + 1] < l[cur_idx + 1]
         IN RunBest5(turns, h, l, j + 1, end, type,
                     IF better THEN j_index ELSE cur_idx)

RECURSIVE Compact5From(_, _, _, _)
Compact5From(turns, h, l, k) ==
    IF k >= Len(turns) THEN <<>>
    ELSE LET type == turns[k + 1][2]
             end == RunEnd(turns, k + 1, type)
         IN <<(<<RunBest5(turns, h, l, k + 1, end, type, turns[k + 1][1]), type>>)>>
              \o Compact5From(turns, h, l, end)

CompactTurns5(turns, h, l) == Compact5From(turns, h, l, 0)

RECURSIVE EmitTurns5(_, _, _)
\* lines 133-136
EmitTurns5(pf_out, confirmed, data_len) ==
    IF confirmed = <<>> THEN pf_out
    ELSE LET index == Head(confirmed)[1]
             written == IF index < data_len
                        THEN [pf_out EXCEPT ![index + 1] = Head(confirmed)[2]]
                        ELSE pf_out
         IN EmitTurns5(written, Tail(confirmed), data_len)

\* lines 22-138
identify_turns5(h, l) ==
    LET data_len == Len(h)
    IN IF Len(l) # data_len THEN ValueError
       ELSE IF data_len <= 6 THEN Call(ZeroArray(data_len))
       ELSE LET new_turns == CompactTurns5(CandidateTurns5(h, l), h, l)
            IN IF Len(new_turns) <= 3 THEN Call(ZeroArray(data_len))
               ELSE Call(EmitTurns5(ZeroArray(data_len), ConfirmFrom(new_turns, 0),
                                    data_len))

-----------------------------------------------------------------------------
(* Segment construction and the pattern matchers *)

RECURSIVE TurnPointsFrom(_, _)
\* the (index, kind) pairs of the non-zero entries of frac, from index k on
TurnPointsFrom(fr, k) ==
    IF k >= Len(fr) THEN <<>>
    ELSE IF fr[k + 1] # 0
         THEN <<(<<k, fr[k + 1]>>)>> \o TurnPointsFrom(fr, k + 1)
         ELSE TurnPointsFrom(fr, k + 1)

TurnPoints(fr) == TurnPointsFrom(fr, 0)

\* the next position whatever its kind
FindOppositeAny(tp, from, dir1) == IF from >= Len(tp) THEN Len(tp) ELSE from

RECURSIVE FindOpposite(_, _, _)
\* first position j >= from (0-based) in tp whose kind is -dir1; Len(tp) if none
FindOpposite(tp, from, dir1) ==
    IF from >= Len(tp) THEN Len(tp)
    ELSE IF tp[from + 1][2] = -dir1 THEN from
    ELSE FindOpposite(tp, from + 1, dir1)

RECURSIVE SegmentsFrom(_, _)
\* the greedy scan from position k: (start index, end index, kind of the start)
SegmentsFrom(tp, k) ==
    IF k >= Len(tp) THEN <<>>
    ELSE LET j == FindOpposite(tp, k + 1, tp[k + 1][2])
         IN IF j >= Len(tp) THEN <<>>
            ELSE <<(<<tp[k + 1][1], tp[j + 1][1], tp[k + 1][2]>>)>>
                   \o SegmentsFrom(tp, j)

Segments(fr) == SegmentsFrom(TurnPoints(fr), 0)

RECURSIVE FilterDown(_)
FilterDown(segs) ==
    IF segs = <<>> THEN <<>>
    ELSE IF Head(segs)[3] = 1
         THEN <<(<<Head(segs)[1], Head(segs)[2]>>)>> \o FilterDown(Tail(segs))
         ELSE FilterDown(Tail(segs))

RECURSIVE InsertByEndDesc(_, _)
\* stable insertion of seg into a list ordered by end index, descending
InsertByEndDesc(sorted, seg) ==
    IF sorted = <<>> THEN <<seg>>
    ELSE IF Head(sorted)[2] >= seg[2]
         THEN <<Head(sorted)>> \o InsertByEndDesc(Tail(sorted), seg)
         ELSE <<seg>> \o sorted

RECURSIVE SortByEndDesc(_)
SortByEndDesc(segs) ==
    IF segs = <<>> THEN <<>>
    ELSE InsertByEndDesc(SortByEndDesc(Front(segs)), Last(segs))

\* the down-segments, most recent first
DownSegments(fr) == SortByEndDesc(FilterDown(Segments(fr)))

MinSegmentsBasic == 3    \* len(down_segments) < 3
MinSegmentsAsBasic == MinSegmentsBasic
MinSegmentsBixia == 4    \* len(down_segments) < 4
MinSegmentsExt == 4      \* len(down_segments) < 4

LengthsDifferLowOnly(fr, h, l) == Len(l) # Len(h)

\* gu_piao_5M_data.three_buy_variant, lines 152-155
LengthsDiffer(fr, h, l) == Len(l) # Len(h) \/ Len(fr) # Len(h)

TroughsDescendLoose(prev2_low, prev_low, latest_low) ==
    ~(prev_low > prev2_low) /\ ~(latest_low > prev_low)

\* gu_piao_5M_data.three_buy_variant, lines 212-215
TroughsDescend(prev2_low, prev_low, latest_low) ==
    ~(prev_low >= prev2_low) /\ ~(latest_low >= prev_low)

\* gu_piao_5M_data.three_buy_variant, line 225
BreaksOut(last_k_price, latest_seg_high, prev_seg_high) ==
    ~(last_k_price <= latest_seg_high /\ last_k_price <= prev_seg_high)

\* gu_piao_5M_data.three_buy_variant (three-buy-basic)
three_buy_variant(fr, h, l) ==
    LET data_len == Len(h)
        pf_out == ZeroArray(data_len)
    IN IF LengthsDiffer(fr, h, l) THEN ValueError
       ELSE IF data_len <= 0 THEN Call(pf_out)
       ELSE LET down_segments == DownSegments(fr)
            IN IF Len(down_segments) < MinSegmentsBasic THEN Call(pf_out)
               ELSE LET latest_seg == down_segments[1]
                        prev_seg == down_segments[2]
                        prev2_seg == down_segments[3]
                    IN IF ~TroughsDescend(l[prev2_seg[2] + 1], l[prev_seg[2] + 1],
                                          l[latest_seg[2] + 1])
                       THEN Call(pf_out)
                       ELSE IF ~BreaksOut(h[data_len], h[latest_seg[1] + 1],
                                          h[prev_seg[1] + 1])
                       THEN Call(pf_out)
                       ELSE Call([pf_out EXCEPT ![data_len] = 1])

\* gu_piao_5M_data_bixia.three_buy_variant (bi-xia)
three_buy_variant_bixia(fr, h, l) ==
    LET data_len == Len(h)
        pf_out == ZeroArray(data_len)
    IN IF LengthsDiffer(fr, h, l) THEN ValueError
       ELSE IF data_len <= 0 THEN Call(pf_out)
       ELSE LET down_segments == DownSegments(fr)
            IN IF Len(down_segments) < MinSegmentsBixia THEN Call(pf_out)
               ELSE LET latest_seg == down_segments[1]
                        prev_seg == down_segments[2]
                        prev2_seg == down_segments[3]
                        latest_low == l[latest_seg[2] + 1]
                        prev_low == l[prev_seg[2] + 1]
                        prev2_low == l[prev2_seg[2] + 1]
                        latest_high == h[latest_seg[1] + 1]
                        prev_high == h[prev_seg[1] + 1]
                        prev2_high == h[prev2_seg[1] + 1]
                    IN IF prev_low >= prev2_low \/ prev_high > prev2_high
                       THEN Call(pf_out)
                       ELSE IF latest_high < prev_high \/ latest_high < prev2_high
                       THEN Call(pf_out)
                       ELSE IF latest_low <= prev_low
                       THEN Call(pf_out)
                       ELSE Call([pf_out EXCEPT ![data_len] = 1])

\* StockSignalAnalyzer.three_buy2, lines 83-85
LengthsDifferExt(fr, h, l) == Len(h) # Len(fr) \/ Len(l) # Len(fr)

\* marks the end of the segment only
MarkSegmentEndOnly(pf_out, seg1, data_len) ==
    IF seg1[2] < data_len THEN [pf_out EXCEPT ![seg1[2] + 1] = 1] ELSE pf_out

\* StockSignalAnalyzer.three_buy2, lines 148-151: +1 at the end of seg1, then
\* -1 at its start
MarkSegment(pf_out, seg1, data_len) ==
    LET withEnd == IF seg1[2] < data_len
                   THEN [pf_out EXCEPT ![seg1[2] + 1] = 1]
                   ELSE pf_out
    IN IF seg1[1] < data_len
       THEN [withEnd EXCEPT ![seg1[1] + 1] = -1]
       ELSE withEnd

\* StockSignalAnalyzer.three_buy2 (three-buy-extended)
three_buy2(fr, h, l) ==
    LET data_len == Len(fr)
        pf_out == ZeroArray(data_len)
    IN IF LengthsDifferExt(fr, h, l) THEN ValueError
       ELSE IF data_len <= 0 THEN Call(pf_out)
       ELSE LET segments == Segments(fr)
                down_segments == DownSegments(fr)
            IN IF Len(down_segments) < MinSegmentsExt THEN Call(pf_out)
               ELSE LET seg1 == down_segments[1]
                        seg2 == down_segments[2]
                        seg3 == down_segments[3]
                        all_overlap ==
                            Min2(h[seg2[1] + 1], h[seg3[1] + 1])
                              > Max2(l[seg2[2] + 1], l[seg3[2] + 1])
                        seg1_low == l[seg1[2] + 1]
                        should_output == seg1_low > h[seg2[1] + 1]
                                         \/ seg1_low > h[seg3[1] + 1]
                    IN IF should_output /\ all_overlap
                          /\ segments # <<>> /\ Last(segments)[3] = 1
                       THEN Call(MarkSegment(pf_out, seg1, data_len))
                       ELSE Call(pf_out)

-----------------------------------------------------------------------------
(* Idle values of the variables a specification does not use *)

IdleSlide ==
    /\ arr = <<>> /\ window_size = 1 /\ mode = "max"
    /\ i = 0 /\ dq = <<>> /\ result = <<>>

NoSignals == [basic |-> Call(<<>>), bixia |-> Call(<<>>), ext |-> Call(<<>>)]

IdleEngine ==
    /\ high = <<>> /\ low = <<>> /\ merged = <<>>
    /\ frac = <<>> /\ frac5 = Call(<<>>) /\ ran = {} /\ sig = NoSignals

IdleHost ==
    /\ scanner = "none" /\ cycle = 0 /\ pos = 0 /\ ok = FALSE
    /\ triggered_stocks = {} /\ alerts = <<>> /\ failures = <<>>

NoCall == [data_len |-> 0, raised |-> FALSE, out |-> <<>>]

IdleFetch == outcomes = <<>> /\ tried = 0 /\ fetched = "none" /\ fetches = 0

IdleBacktest ==
    /\ cash = 0 /\ position = 0 /\ in_position = FALSE
    /\ stop_loss_price = 0 /\ stop_loss_ratio = 0
    /\ trades = <<>> /\ bars_done = 0

IdleSignals ==
    /\ close_full = <<>> /\ ma60_full = <<>>
    /\ buy_signals = <<>> /\ sell_signals = <<>>

IdleApp == turns_call = NoCall /\ IdleFetch /\ IdleBacktest /\ IdleSignals

-----------------------------------------------------------------------------
(* SpecMerge: the scan of merge_contained_bars, one action per loop         *)
(* iteration; the bar read by iteration k is chosen when the iteration runs *)

InitMerge == IdleSlide /\ IdleEngine /\ IdleHost /\ IdleApp

MergeBar(h, l) ==
    /\ Len(high) < MaxMergeLen
    /\ high' = Append(high, h)
    /\ low' = Append(low, l)
    /\ merged' = MergeStep(merged, Len(high), h, l)
    /\ UNCHANGED <<frac, frac5, ran, sig>>
    /\ UNCHANGED slideVars
    /\ UNCHANGED hostVars
    /\ UNCHANGED appVars

NextMerge == \E h \in 0..MaxPrice : \E l \in 0..h : MergeBar(h, l)

SpecMerge == InitMerge /\ [][NextMerge]_vars

-----------------------------------------------------------------------------
(* SpecSlide: sliding_max / sliding_min; the array, the window and the      *)
(* function are chosen at the call, then the loop runs one iteration per    *)
(* step                                                                     *)

RECURSIVE SeqsUpTo(_, _)
SeqsUpTo(S, n) ==
    IF n = 0 THEN {<<>>}
    ELSE LET shorter == SeqsUpTo(S, n - 1)
         IN shorter \cup {Append(t, x) : t \in {u \in shorter : Len(u) = n - 1}, x \in S}

InitSlide ==
    /\ arr \in SeqsUpTo(0..MaxVal, MaxArrLen)
    /\ window_size \in 1..MaxWindow
    /\ mode \in {"max", "min"}
    /\ i = 0
    /\ dq = <<>>
    /\ result = SlideInitResult(arr, mode)
    /\ IdleEngine
    /\ IdleHost
    /\ IdleApp

SlideStep ==
    /\ i < Len(arr)
    /\ dq' = SlideDeque(dq, arr, i, window_size, mode)
    /\ result' = SlideResult(result, dq', arr, i, window_size)
    /\ i' = i + 1
    /\ UNCHANGED <<arr, window_size, mode>>
    /\ UNCHANGED engineVars
    /\ UNCHANGED hostVars
    /\ UNCHANGED appVars

NextSlide == SlideStep

SpecSlide == InitSlide /\ [][NextSlide]_vars

-----------------------------------------------------------------------------
(* The polling cycle of the host scanners: the window grows by one bar and  *)
(* the whole pipeline is recomputed on it: gupiaojichu.identify_turns       *)
(* feeds bi-xia (update_all_stocks, lines 276-278) and three_buy2           *)
(* (calculate_buy_signal, lines 160-167); gu_piao_5M_data.identify_turns    *)
(* feeds three_buy_variant, the pair that identify_three_buy_variant        *)
(* integrates                                                               *)

Signals(fr5, fr, h, l) ==
    [basic |-> three_buy_variant(fr5, h, l),
     bixia |-> three_buy_variant_bixia(fr, h, l),
     ext |-> three_buy2(fr, h, l)]

Poll(h, l) ==
    \E turns \in {identify_turns(Len(high) + 1, Append(high, h), Append(low, l))} :
    \E turns5 \in {identify_turns5(Append(high, h), Append(low, l))} :
       /\ high' = Append(high, h)
       /\ low' = Append(low, l)
       /\ frac' = turns.out
       /\ ran' = turns.stages
       /\ frac5' = turns5
       /\ sig' = Signals(turns5.out, turns.out, high', low')
       /\ UNCHANGED merged
       /\ UNCHANGED slideVars
       /\ UNCHANGED hostVars
       /\ UNCHANGED appVars

\* a call of the two detectors alone on the window grown by one bar
Detect(h, l) ==
    \E turns \in {identify_turns(Len(high) + 1, Append(high, h), Append(low, l))} :
       /\ high' = Append(high, h)
       /\ low' = Append(low, l)
       /\ frac' = turns.out
       /\ ran' = turns.stages
       /\ frac5' = identify_turns5(high', low')
       /\ UNCHANGED <<merged, sig>>
       /\ UNCHANGED slideVars
       /\ UNCHANGED hostVars
       /\ UNCHANGED appVars

(* SpecTurns: windows whose first WindowSize bars are the warm-up bars (no  *)
(* bar before index WindowSize can be a candidate) and whose later bars are *)
(* drawn from TurnBars: flat bars at three levels and one wide bar          *)

WarmUp == << <<2, 2>>, <<5, 2>>, <<2, 2>>, <<5, 2>> >>

TurnBars == {<<2, 2>>, <<4, 4>>, <<7, 7>>, <<5, 2>>}

NextBars == IF Len(high) < Len(WarmUp) THEN {WarmUp[Len(high) + 1]} ELSE TurnBars

InitTurns == IdleSlide /\ IdleEngine /\ IdleHost /\ IdleApp

NextTurns == \E b \in NextBars : Len(high) < MaxTurnLen /\ Detect(b[1], b[2])

SpecTurns == InitTurns /\ [][NextTurns]_vars

(* SpecRising: strictly increasing series; each bar's high and low exceed   *)
(* the previous bar's by more than eps                                      *)

FirstBars == {<<0, 0>>, <<1, 0>>, <<3, 0>>}

RiseSteps == {<<Eps + 1, Eps + 1>>, <<Eps + 2, Eps + 1>>, <<Eps + 1, Eps + 2>>}

RisingBars ==
    IF high = <<>> THEN FirstBars
    ELSE {b \in {<<Last(high) + d[1], Last(low) + d[2]>> : d \in RiseSteps} :
            b[1] >= b[2]}

InitRising == IdleSlide /\ IdleEngine /\ IdleHost /\ IdleApp

NextRising == \E b \in RisingBars : Len(high) < MaxRiseLen /\ Poll(b[1], b[2])

SpecRising == InitRising /\ [][NextRising]_vars

-----------------------------------------------------------------------------
(* SpecMatch: the three matchers on an arbitrary turning-point array. The   *)
(* first call is made on a window that is empty or already holds two        *)
(* down-segments of history; each step appends one bar with its mark and    *)
(* calls the matchers again                                                 *)

MatchPrices == 0..2

\* a bar with its mark: <<mark, high, low>>
MatchPoints ==
    {<<1, p, 0>> : p \in MatchPrices}
      \cup {<<-1, 2, p>> : p \in MatchPrices}
      \cup {<<0, 0, 0>>, <<0, 2, 0>>}

HistoryA == << <<1, 2, 0>>, <<-1, 2, 2>>, <<1, 2, 0>>, <<-1, 2, 1>> >>

HistoryB == << <<1, 2, 0>>, <<-1, 2, 2>>, <<1, 1, 0>>, <<-1, 2, 0>> >>

Histories == {<<>>, HistoryA, HistoryB}

Column(points, c) == [k \in 1..Len(points) |-> points[k][c]]

\* number of leading bars of the window that are history
HistoryLen ==
    LET held == {p \in Histories :
                   /\ Len(p) <= Len(high)
                   /\ \A k \in 1..Len(p) : p[k] = <<frac[k], high[k], low[k]>>}
    IN CHOOSE n \in {Len(p) : p \in held} : \A p \in held : Len(p) <= n

FeedPoint(f, h, l) ==
    /\ Len(high) - HistoryLen < MaxMatchLen
    /\ frac' = Append(frac, f)
    /\ high' = Append(high, h)
    /\ low' = Append(low, l)
    /\ sig' = Signals(frac', frac', high', low')
    /\ UNCHANGED <<merged, frac5, ran>>
    /\ UNCHANGED slideVars
    /\ UNCHANGED hostVars
    /\ UNCHANGED appVars

InitMatch ==
    /\ IdleSlide
    /\ IdleHost
    /\ IdleApp
    /\ merged = <<>> /\ frac5 = Call(<<>>) /\ ran = {}
    /\ \E p \in Histories :
          /\ frac = Column(p, 1)
          /\ high = Column(p, 2)
          /\ low = Column(p, 3)
    /\ sig = Signals(frac, frac, high, low)

NextMatch == \E pt \in MatchPoints : FeedPoint(pt[1], pt[2], pt[3])

SpecMatch == InitMatch /\ [][NextMatch]_vars

(* SpecMismatch: frac, high and low grow independently, so that the         *)
(* matchers are called with arrays of every combination of lengths          *)

MisPrices == 0..1

GrowFrac(f) ==
    /\ Len(frac) < MaxMisLen
    /\ frac' = Append(frac, f)
    /\ sig' = Signals(frac', frac', high, low)
    /\ UNCHANGED <<high, low, merged, frac5, ran>>
    /\ UNCHANGED slideVars
    /\ UNCHANGED hostVars
    /\ UNCHANGED appVars

GrowHigh(h) ==
    /\ Len(high) < MaxMisLen
    /\ high' = Append(high, h)
    /\ sig' = Signals(frac, frac, high', low)
    /\ UNCHANGED <<frac, low, merged, frac5, ran>>
    /\ UNCHANGED slideVars
    /\ UNCHANGED hostVars
    /\ UNCHANGED appVars

GrowLow(l) ==
    /\ Len(low) < MaxMisLen
    /\ low' = Append(low, l)
    /\ sig' = Signals(frac, frac, high, low')
    /\ UNCHANGED <<frac, high, merged, frac5, ran>>
    /\ UNCHANGED slideVars
    /\ UNCHANGED hostVars
    /\ UNCHANGED appVars

InitMismatch == IdleSlide /\ IdleEngine /\ IdleHost /\ IdleApp

NextMismatch ==
    \/ \E f \in {-1, 0, 1} : GrowFrac(f)
    \/ \E h \in MisPrices : GrowHigh(h)
    \/ \E l \in MisPrices : GrowLow(l)

SpecMismatch == InitMismatch /\ [][NextMismatch]_vars

-----------------------------------------------------------------------------
(* Host scanners: update_all_stocks / check_all_stocks run once per polling *)
(* cycle and walk stock_list; one action per loop iteration. The data       *)
(* fetch, the matcher result and the outcome of the alert calls are inputs  *)
(* of the iteration.                                                        *)

MaxCycles == 3       \* host scanners: polling cycles run

StockList == <<"sh600000", "sz000001">>

ThreeBuyScanners == {"gu_piao_5M_data", "gu_piao_5M_data_bixia", "gu_piao_30M_data"}

BottomScanner == "di_fen_xing_5M"

\* 5分钟底分型预警.di_fen_xing
di_fen_xing(m) ==
    IF Len(m) < 3 THEN FALSE
    ELSE LET k1 == m[Len(m) - 2]
             k2 == m[Len(m) - 1]
             k3 == m[Len(m)]
         IN /\ k2.low < k1.low /\ k2.low < k3.low
            /\ k2.high < k1.high /\ k2.high < k3.high

NotYetTriggeredNever(full_code) == TRUE

\* full_code not in self.triggered_stocks
NotYetTriggered(full_code) == full_code \notin triggered_stocks

\* the condition of the alert block
ShouldAlert(s, signal, full_code) ==
    IF s = BottomScanner THEN signal
    ELSE signal /\ NotYetTriggered(full_code)

\* check_all_stocks adds the code before its last alert call, so the code is
\* recorded even when that call raises; the other scanners add it last
AddsBeforeLastAlert(s) == s = "gu_piao_30M_data"

\* one iteration of the loop over stock_list
ScanStock(has_data, signal, raises) ==
    /\ pos < Len(StockList)
    /\ LET full_code == StockList[pos + 1]
           alert == has_data /\ ShouldAlert(scanner, signal, full_code)
       IN /\ ok' = IF has_data THEN signal ELSE ok
          /\ alerts' = IF alert THEN Append(alerts, <<cycle, full_code>>) ELSE alerts
          /\ failures' = IF alert /\ raises
                         THEN Append(failures, <<cycle, full_code>>)
                         ELSE failures
          /\ triggered_stocks' =
                IF alert /\ (~raises \/ AddsBeforeLastAlert(scanner))
                THEN triggered_stocks \cup {full_code}
                ELSE triggered_stocks
    /\ pos' = pos + 1
    /\ UNCHANGED <<scanner, cycle>>
    /\ UNCHANGED slideVars
    /\ UNCHANGED engineVars
    /\ UNCHANGED appVars

\* the loop is over; schedule runs the next cycle
NextCycle ==
    /\ pos = Len(StockList)
    /\ cycle + 1 < MaxCycles
    /\ cycle' = cycle + 1
    /\ pos' = 0
    /\ UNCHANGED <<scanner, ok, triggered_stocks, alerts, failures>>
    /\ UNCHANGED slideVars
    /\ UNCHANGED engineVars
    /\ UNCHANGED appVars

InitHost(scanners) ==
    /\ scanner \in scanners
    /\ cycle = 0 /\ pos = 0 /\ ok = FALSE
    /\ triggered_stocks = {} /\ alerts = <<>> /\ failures = <<>>
    /\ IdleSlide /\ IdleEngine /\ IdleApp

(* SpecThreeBuy: the three scanners that alert on a three-buy signal *)

InitThreeBuy == InitHost(ThreeBuyScanners)

NextThreeBuy ==
    \/ \E has_data, signal, raises \in BOOLEAN : ScanStock(has_data, signal, raises)
    \/ NextCycle

SpecThreeBuy == InitThreeBuy /\ [][NextThreeBuy]_vars

(* SpecBottom: the bottom-fractal scanner; the signal is di_fen_xing of the *)
(* merged bars of the window fetched for the stock                          *)

BottomWindows ==
    {<< <<5, 2, 6>>, <<3, 0, 4>> >>,
     << <<2, 5, 6>>, <<0, 3, 4>> >>,
     << <<5, 2>>, <<3, 0>> >>}

FetchedSignal(w) == di_fen_xing(merge_contained_bars(w[1], w[2], Len(w[1])))

InitBottom == InitHost({BottomScanner})

NextBottom ==
    \/ \E raises \in BOOLEAN :
          \/ \E w \in BottomWindows : ScanStock(TRUE, FetchedSignal(w), raises)
          \/ ScanStock(FALSE, FALSE, raises)
    \/ NextCycle

SpecBottom == InitBottom /\ [][NextBottom]_vars

-----------------------------------------------------------------------------
(* SpecCall: gupiaojichu.identify_turns called directly, with a data_len    *)
(* and with high and low lists that need not agree in length                *)

MaxCallLen == 6      \* direct calls: length of each of high, low

CallPrices == 0..1

IndexError == [raised |-> TRUE, out |-> <<>>]

\* gupiaojichu.identify_turns on any arguments: lines 172-175 return
\* data_len zeros before high or low is read; merge_contained_bars (lines
\* 65-67) reads high[i] and low[i] for i in range(data_len)
identify_turns_call(data_len, h, l) ==
    IF ShortInput(data_len) THEN Call(ZeroArray(data_len))
    ELSE IF data_len > Len(h) \/ data_len > Len(l) THEN IndexError
    ELSE Call(identify_turns(data_len, h, l).out)

CallTurns(data_len, h, l) ==
    LET returned == identify_turns_call(data_len, h, l)
    IN turns_call' = [data_len |-> data_len, raised |-> returned.raised,
                      out |-> returned.out]

GrowHighCall(data_len, h) ==
    /\ Len(high) < MaxCallLen
    /\ high' = Append(high, h)
    /\ CallTurns(data_len, high', low)
    /\ UNCHANGED <<low, merged, frac, frac5, ran, sig>>
    /\ UNCHANGED slideVars
    /\ UNCHANGED hostVars
    /\ UNCHANGED fetchVars
    /\ UNCHANGED backtestVars
    /\ UNCHANGED signalVars

GrowLowCall(data_len, l) ==
    /\ Len(low) < MaxCallLen
    /\ low' = Append(low, l)
    /\ CallTurns(data_len, high, low')
    /\ UNCHANGED <<high, merged, frac, frac5, ran, sig>>
    /\ UNCHANGED slideVars
    /\ UNCHANGED hostVars
    /\ UNCHANGED fetchVars
    /\ UNCHANGED backtestVars
    /\ UNCHANGED signalVars

InitCall == IdleSlide /\ IdleEngine /\ IdleHost /\ IdleApp

NextCall ==
    \E data_len \in 0..(MaxCallLen + 1) :
       \/ \E h \in CallPrices : GrowHighCall(data_len, h)
       \/ \E l \in CallPrices : GrowLowCall(data_len, l)

SpecCall == InitCall /\ [][NextCall]_vars

-----------------------------------------------------------------------------
(* SpecFetch: get_5min_data / get_kline_data of the three-buy scanners. A   *)
(* call walks self.servers; what each server does when tried is fixed when  *)
(* the call starts. One action per loop iteration.                          *)

MaxFetches == 2      \* data fetch: calls made

\* self.servers
Servers == <<"152.136.167.10", "36.153.42.16">>

\* api.connect returns False; api.connect or get_security_bars raises;
\* get_security_bars returns no bars; get_security_bars returns bars
ServerOutcomes == {"connect_fails", "raises", "no_bars", "bars"}

\* 'if data: ... return result_list' and 'else: ... return None'
ReturnsAt(outcome) == outcome \in {"bars", "no_bars"}

StartFetch(o) ==
    /\ fetched # "running"
    /\ fetches < MaxFetches
    /\ outcomes' = o
    /\ tried' = 0
    /\ fetched' = "running"
    /\ fetches' = fetches + 1
    /\ UNCHANGED turns_call
    /\ UNCHANGED backtestVars
    /\ UNCHANGED signalVars
    /\ UNCHANGED slideVars
    /\ UNCHANGED engineVars
    /\ UNCHANGED hostVars

\* one iteration of 'for server_ip, server_port in self.servers'; the
\* return after the loop belongs to the last iteration
TryServer ==
    /\ fetched = "running"
    /\ tried < Len(Servers)
    /\ tried' = tried + 1
    /\ LET outcome == outcomes[tried + 1]
       IN fetched' = IF outcome = "bars" THEN "bars"
                     ELSE IF ReturnsAt(outcome) THEN "none"
                     ELSE IF tried' = Len(Servers) THEN "none"
                     ELSE "running"
    /\ UNCHANGED <<outcomes, fetches, turns_call>>
    /\ UNCHANGED backtestVars
    /\ UNCHANGED signalVars
    /\ UNCHANGED slideVars
    /\ UNCHANGED engineVars
    /\ UNCHANGED hostVars

InitFetch ==
    /\ scanner \in ThreeBuyScanners
    /\ cycle = 0 /\ pos = 0 /\ ok = FALSE
    /\ triggered_stocks = {} /\ alerts = <<>> /\ failures = <<>>
    /\ IdleSlide /\ IdleEngine /\ IdleApp

NextFetch ==
    \/ \E o \in [1..Len(Servers) -> ServerOutcomes] : StartFetch(o)
    \/ TryServer

SpecFetch == InitFetch /\ [][NextFetch]_vars

-----------------------------------------------------------------------------
(* SpecBacktest: the row loop of run_backtest (回测2.py, 回测.py). Prices   *)
(* are whole currency units, money is counted in cents and shares come in   *)
(* lots of 100, so that the commission of 0.03% is exact: a lot at price p  *)
(* costs p * 10003 cents and sells for p * 9997 cents. One action per row   *)
(* of the data frame; the row's close, low and signal are its inputs.       *)

MaxBars == 4         \* backtest: rows processed

init_cash == 100000  \* init_cash: float = 100000.0

Cents == 100

LotSize == 100       \* int(max_shares // 100 * 100)

CommissionBp == 3    \* commission: float = 0.0003, in 1/10000

BpUnit == 10000

AffordMargin == 1001 \* entry_price * 1.001, in 1/1000

\* stop_loss_ratio: 0.01 (回测2.py) or 0.02 (回测.py), in percent
StopLossRatios == {1, 2}

\* rows as <<close, low>>
BacktestRows == {<<10, 10>>, <<10, 9>>, <<12, 9>>, <<8, 6>>}

StrategySignals == {1, -1, 0}

\* calculate_position_size; current_cash in cents, the result in shares
calculate_position_size(current_cash, entry_price, stop_price) ==
    IF entry_price <= stop_price THEN 0
    ELSE LET loss_per_share == entry_price - stop_price
             \* risk_per_trade / loss_per_share // 100
             risk_lots == (current_cash * stop_loss_ratio)
                             \div (Cents * 100 * loss_per_share * LotSize)
             \* current_cash / (entry_price * 1.001) // 100
             afford_lots == (current_cash * (1000 \div Cents))
                             \div (entry_price * AffordMargin * LotSize)
         IN Max2(Min2(risk_lots, afford_lots) * LotSize, 0)

\* sell_num * close_price * (1 - commission), in cents
SellIncome(sell_num, close_price) ==
    (sell_num \div LotSize) * close_price * (BpUnit - CommissionBp)

\* buy_num * close_price * (1 + commission), in cents
BuyCost(buy_num, close_price) ==
    (buy_num \div LotSize) * close_price * (BpUnit + CommissionBp)

\* if self.in_position and low_price <= self.stop_loss_price
StopLossHit(in_pos, low_price) == in_pos /\ low_price <= stop_loss_price

BuySignalTakenHolding(signal, c, close_price, in_pos) ==
    signal = 1 /\ c > close_price * Cents

\* if row['signal'] == 1 and cash > close_price and not self.in_position
BuySignalTaken(signal, c, close_price, in_pos) ==
    signal = 1 /\ c > close_price * Cents /\ ~in_pos

\* elif row['signal'] == -1 and position > 0
SellSignalTaken(signal, held) == signal = -1 /\ held > 0

Trade(op, num, held, was_in) ==
    [op |-> op, num |-> num, held |-> held, was_in |-> was_in]

ProcessRow(close_price, low_price, signal) ==
    LET current_total_asset == cash + position * close_price * Cents
        stopped == StopLossHit(in_position, low_price)
        cash1 == IF stopped THEN cash + SellIncome(position, close_price) ELSE cash
        position1 == IF stopped THEN 0 ELSE position
        in1 == IF stopped THEN FALSE ELSE in_position
        stop1 == IF stopped THEN 0 ELSE stop_loss_price
        trades1 == IF stopped
                   THEN <<Trade("stop_sell", position, position, in_position)>>
                   ELSE <<>>
        buying == BuySignalTaken(signal, cash1, close_price, in1)
        buy_num == calculate_position_size(current_total_asset, close_price, low_price)
        cost == BuyCost(buy_num, close_price)
        bought == buying /\ buy_num > 0 /\ cash1 >= cost
        sold == ~buying /\ SellSignalTaken(signal, position1)
    IN /\ bars_done < MaxBars
       /\ bars_done' = bars_done + 1
       /\ cash' = IF bought THEN cash1 - cost
                  ELSE IF sold THEN cash1 + SellIncome(position1, close_price)
                  ELSE cash1
       /\ position' = IF bought THEN position1 + buy_num
                      ELSE IF sold THEN 0
                      ELSE position1
       /\ in_position' = IF bought THEN TRUE ELSE IF sold THEN FALSE ELSE in1
       /\ stop_loss_price' = IF buying THEN low_price
                             ELSE IF sold THEN 0
                             ELSE stop1
       /\ trades' = trades1
                      \o (IF bought THEN <<Trade("buy", buy_num, position1, in1)>>
                          ELSE IF sold THEN <<Trade("sell", position1, position1, in1)>>
                          ELSE <<>>)
       /\ UNCHANGED stop_loss_ratio
       /\ UNCHANGED <<turns_call, fetchVars, signalVars>>
       /\ UNCHANGED slideVars
       /\ UNCHANGED engineVars
       /\ UNCHANGED hostVars

InitBacktest ==
    /\ cash = init_cash * Cents /\ position = 0 /\ in_position = FALSE
    /\ stop_loss_price = 0 /\ stop_loss_ratio \in StopLossRatios
    /\ trades = <<>> /\ bars_done = 0
    /\ turns_call = NoCall /\ IdleFetch /\ IdleSignals
    /\ IdleSlide /\ IdleEngine /\ IdleHost

NextBacktest ==
    \E row \in BacktestRows, signal \in StrategySignals :
       ProcessRow(row[1], row[2], signal)

SpecBacktest == InitBacktest /\ [][NextBacktest]_vars

-----------------------------------------------------------------------------
(* The backtest signal generators of 回测2.py: calculate_three_buy_signals  *)
(* and calculate_dynamic_sell_signals run gupiaojichu.identify_turns and    *)
(* the backtest's own three_buy_variant on every window high_full[:k]       *)

RECURSIVE FilterUp(_)
FilterUp(segs) ==
    IF segs = <<>> THEN <<>>
    ELSE IF Head(segs)[3] = 1
         THEN FilterUp(Tail(segs))
         ELSE <<(<<Head(segs)[1], Head(segs)[2]>>)>> \o FilterUp(Tail(segs))

\* lines 255-261: the bars after the segment are too many for its length
TooFarAfter(seg_length, after_seg_length) ==
    IF seg_length >= 9
    THEN after_seg_length * 19 > seg_length * 10
    ELSE after_seg_length > seg_length

\* TdxStockBacktest.three_buy_variant
three_buy_variant_backtest(fr, h, l) ==
    LET data_len == Len(h)
        pf_out == ZeroArray(data_len)
    IN IF LengthsDiffer(fr, h, l) THEN ValueError
       ELSE IF data_len <= 0 THEN Call(pf_out)
       ELSE LET segments == Segments(fr)
                down_segments == SortByEndDesc(FilterDown(segments))
                up_segments == SortByEndDesc(FilterUp(segments))
            IN IF Len(down_segments) < 1 THEN Call(pf_out)
               ELSE LET latest_seg == down_segments[1]
                        latest_high == h[latest_seg[1] + 1]
                        last_k_idx == data_len - 1
                    IN IF h[last_k_idx + 1] <= latest_high THEN Call(pf_out)
                       ELSE IF TooFarAfter(latest_seg[2] - latest_seg[1],
                                           last_k_idx - latest_seg[2])
                       THEN Call(pf_out)
                       ELSE IF /\ Len(up_segments) > 0
                               /\ \E k \in up_segments[1][1]..(up_segments[1][2] - 1) :
                                     h[k + 1] >= latest_high
                       THEN Call(pf_out)
                       ELSE Call([pf_out EXCEPT ![data_len] = 1])

WindowWhole(full, window_end) == full

\* high_full[:window_end]
Window(full, window_end) == SubSeq(full, 1, window_end)

\* calculate_three_buy_signals: the body of the loop for one window_end;
\* the signal stays 0 when three_buy_variant raises
BuySignalAt(high_full, low_full, window_end) ==
    IF \E high_window \in {Window(high_full, window_end)},
          low_window \in {Window(low_full, window_end)} :
       \E frac_window \in {identify_turns(window_end, high_window, low_window).out} :
       \E window_signal \in {three_buy_variant_backtest(frac_window, high_window,
                                                        low_window)} :
          ~window_signal.raised /\ Last(window_signal.out) = 1
    THEN 1 ELSE 0

calculate_three_buy_signals(high_full, low_full) ==
    IF Len(high_full) # Len(low_full) THEN ValueError
    ELSE Call([k \in 1..Len(high_full) |-> BuySignalAt(high_full, low_full, k)])

\* 'if window_end < 60: continue', the warm-up of the 60-bar moving
\* average, scaled to 6 bars: the windows of the model hold at most a dozen
\* bars, and every window past the warm-up runs the same loop body
MinSellWindow == 6

SetMax(S) == CHOOSE x \in S : \A y \in S : y <= x

\* calculate_dynamic_sell_signals: the body of the loop for one window_end
SellSignalAt(high_full, low_full, close, ma60_list, window_end) ==
    LET current_idx == window_end - 1
        cond_ma60 == /\ current_idx >= 1
                     /\ close[current_idx + 1] < ma60_list[current_idx + 1]
                     /\ close[current_idx] < ma60_list[current_idx]
    IN \E high_window \in {Window(high_full, window_end)},
          low_window \in {Window(low_full, window_end)} :
       \E frac_window \in {identify_turns(window_end, high_window, low_window).out} :
       \E top_indices \in {{k \in 0..(Len(frac_window) - 1) : frac_window[k + 1] = 1}},
          bottom_indices \in {{k \in 0..(Len(frac_window) - 1) : frac_window[k + 1] = -1}} :
          \/ cond_ma60
          \/ /\ bottom_indices # {}
             /\ \E last_bottom_idx \in {SetMax(bottom_indices)} :
                   \* cond_pattern2
                   \/ low_full[current_idx + 1] < low_full[last_bottom_idx + 1]
                   \* cond_pattern1
                   \/ \E valid_tops \in {{k \in top_indices : k < last_bottom_idx}} :
                         /\ valid_tops # {}
                         /\ \E prev_top_idx \in {SetMax(valid_tops)} :
                               /\ current_idx - last_bottom_idx
                                     >= last_bottom_idx - prev_top_idx
                               /\ MaxOfSlice(high_window, last_bottom_idx,
                                             Len(high_window))
                                     <= high_window[prev_top_idx + 1]

calculate_dynamic_sell_signals(high_full, low_full, close, ma60_list) ==
    [k \in 1..Len(high_full) |->
       IF k < MinSellWindow THEN FALSE
       ELSE SellSignalAt(high_full, low_full, close, ma60_list, k)]

(* SpecSignals: the series grows by one bar per step and both generators    *)
(* are run on all of it. The first bars are the warm-up bars, the later     *)
(* ones are drawn from SignalBars; a bar is <<high, low, close, ma60>>.     *)

MaxSignalLen == 12   \* signal generators: bars in the series

SignalWarmUp ==
    << <<2, 2, 2, 3>>, <<5, 2, 4, 3>>, <<2, 2, 2, 3>>, <<5, 2, 4, 3>>,
       <<2, 2, 2, 3>>, <<5, 2, 4, 3>>, <<2, 2, 2, 3>> >>

SignalBars == {<<2, 2, 2, 3>>, <<4, 4, 4, 3>>, <<7, 7, 7, 3>>, <<5, 2, 4, 3>>}

NextSignalBars ==
    IF Len(high) < Len(SignalWarmUp) THEN {SignalWarmUp[Len(high) + 1]}
    ELSE SignalBars

GenerateSignals(h, l, c, m) ==
    /\ Len(high) < MaxSignalLen
    /\ high' = Append(high, h)
    /\ low' = Append(low, l)
    /\ close_full' = Append(close_full, c)
    /\ ma60_full' = Append(ma60_full, m)
    /\ \E buy \in {calculate_three_buy_signals(high', low')} :
          buy_signals' = buy.out
    /\ \E sell \in {calculate_dynamic_sell_signals(high', low', close_full', ma60_full')} :
          sell_signals' = sell
    /\ UNCHANGED <<merged, frac, frac5, ran, sig>>
    /\ UNCHANGED <<turns_call, fetchVars, backtestVars>>
    /\ UNCHANGED slideVars
    /\ UNCHANGED hostVars

InitSignals == IdleSlide /\ IdleEngine /\ IdleHost /\ IdleApp

NextSignals == \E b \in NextSignalBars : GenerateSignals(b[1], b[2], b[3], b[4])

SpecSignals == InitSignals /\ [][NextSignals]_vars

-----------------------------------------------------------------------------
(* Properties *)

\* an array of n zeros, stated without the program's own constructor
AllZero(out, n) == Len(out) = n /\ \A k \in 1..n : out[k] = 0

\* a matcher returned normally, and returned n zeros
ReturnsZeros(call, n) == ~call.raised /\ AllZero(call.out, n)

\* C10: at every point of the loop of sliding_max (sliding_min), the result
\* has the length of arr, and every entry k already written is the maximum
\* (minimum) of arr[k-W+1 .. k] when k >= W-1 and the sentinel -infinity
\* (+infinity) when k < W-1; at i = len(arr) this is the returned array.
SlidingExtremaCorrect ==
    /\ Len(result) = Len(arr)
    /\ \A k \in 0..(i - 1) :
          IF k >= window_size - 1
          THEN LET win == (k - window_size + 2)..(k + 1)
               IN /\ \E j \in win : result[k + 1] = arr[j]
                  /\ \A j \in win : IF mode = "max"
                                     THEN arr[j] <= result[k + 1]
                                     ELSE arr[j] >= result[k + 1]
          ELSE result[k + 1] = (IF mode = "max" THEN NegInf ELSE PosInf)

\* a finished call in which the bar that left the window was larger than
\* everything still in it, and an entry before W-1 kept the sentinel
SlidingWindowExpired ==
    /\ i = Len(arr)
    /\ mode = "max"
    /\ window_size >= 2
    /\ Len(arr) > window_size
    /\ result[1] = NegInf
    /\ \E k \in window_size..(Len(arr) - 1) :
          result[k + 1] < arr[k - window_size + 1]

\* C4: after every step of the scan of merge_contained_bars, every entry of
\* the output list has high >= low (the bars fed all have high >= low).
MergedHighAboveLow ==
    \A k \in 1..Len(merged) : merged[k].high >= merged[k].low

\* the last step merged a contained bar into the tail under an up trend,
\* and the merged bar differs from the tail it replaced
UpTrendMergeDone ==
    /\ Len(high) >= 3
    /\ LET before == MergeUpTo(high, low, Len(high) - 1)
       IN /\ Len(before) >= 2
          /\ Len(merged) = Len(before)
          /\ ~Last(merged).is_same_value
          /\ IsUp(Last(before), before[Len(before) - 1])
          /\ Last(merged) # Last(before)
          /\ Last(merged).high > Last(merged).low

\* input bar k (1-based) is flat
FlatBar(k) == Abs(high[k] - low[k]) < Eps

\* bars a..b are all flat and pairwise of equal value within eps
FlatRun(a, b) ==
    /\ \A k \in a..b : FlatBar(k)
    /\ \A j, k \in a..b : Abs(high[j] - high[k]) < Eps

\* the run a..b cannot be extended by the bar before it or the bar after it
MaximalFlatRun(a, b) ==
    /\ FlatRun(a, b)
    /\ (a > 1 => ~FlatRun(a - 1, b))
    /\ (b < Len(high) => ~FlatRun(a, b + 1))

\* C5: every maximal run of consecutive input bars that are all flat and of
\* equal value within eps is represented by exactly one output entry, marked
\* flat, whose orig_idx is the index of the first bar of the run.
FlatRunOneEntry ==
    \A a \in 1..Len(high) : \A b \in a..Len(high) :
       MaximalFlatRun(a, b) =>
          /\ Cardinality({k \in 1..Len(merged) :
                            merged[k].orig_idx \in (a - 1)..(b - 1)}) = 1
          /\ \E k \in 1..Len(merged) :
                merged[k].orig_idx = a - 1 /\ merged[k].is_same_value

\* C9: whenever frac, high and low are not all of the same length, each of
\* the three matchers raises and returns no signal array.
MismatchRaises ==
    ~(Len(frac) = Len(high) /\ Len(low) = Len(high)) =>
       /\ sig.basic.raised /\ sig.basic.out = <<>>
       /\ sig.bixia.raised /\ sig.bixia.out = <<>>
       /\ sig.ext.raised /\ sig.ext.out = <<>>

\* high and low agree in length and hold bars, frac is shorter, and all
\* three matchers raised
FracShorterRaised ==
    /\ Len(high) = Len(low)
    /\ Len(high) >= 1
    /\ Len(frac) < Len(high)
    /\ sig.basic.raised /\ sig.bixia.raised /\ sig.ext.raised

\* the 1-based positions of the non-zero entries of an array
NonZero(out) == {k \in 1..Len(out) : out[k] # 0}

\* positions a < b of non-zero entries with only zeros between them
Consecutive(out, a, b) ==
    /\ a \in NonZero(out) /\ b \in NonZero(out)
    /\ a < b
    /\ \A m \in (a + 1)..(b - 1) : out[m] = 0

\* C1: any two consecutive non-zero entries of the array returned by
\* gupiaojichu.identify_turns (zeros between them ignored) have opposite
\* signs: +1 is never followed by +1, nor -1 by -1.
TurnsAlternate ==
    \A a, b \in 1..Len(frac) : Consecutive(frac, a, b) => frac[a] = -frac[b]

\* the call ran to emission and returned at least five turning points,
\* peaks and troughs among them
TurnsEmitted ==
    /\ "emit" \in ran
    /\ Cardinality(NonZero(frac)) >= 5
    /\ \E a, b \in 1..Len(frac) : Consecutive(frac, a, b) /\ frac[a] = 1

\* C2: on every return path gupiaojichu.identify_turns returns exactly
\* data_len entries, each of them -1, 0 or 1.
TurnsShape ==
    /\ Len(frac) = Len(high)
    /\ \A k \in 1..Len(frac) : frac[k] \in {-1, 0, 1}

\* each of the four return paths is taken by some call; this one is the
\* return after validation left too few turning points
TooFewValidatedReturn ==
    /\ ran = {"merge", "extrema", "mark", "compact", "validate"}
    /\ Len(high) >= 9
    /\ AllZero(frac, Len(high))

\* C3: on fewer than 6 bars both detectors return all zeros of the input
\* length without raising, and gupiaojichu.identify_turns has run none of
\* its stages (no merging, no window extrema, no candidate marking).
ShortInputZero ==
    Len(high) < 6 =>
       /\ AllZero(frac, Len(high))
       /\ ran = {}
       /\ ReturnsZeros(frac5, Len(high))

\* a call on exactly five bars returned zeros with no stage run
FiveBarsZero ==
    /\ Len(high) = 5
    /\ ran = {}
    /\ AllZero(frac, 5)
    /\ ReturnsZeros(frac5, 5)

\* C6: on a strictly increasing series of any length both detectors return
\* all zeros, the segment builder yields at most one segment, and each of
\* the three matchers returns all zeros.
RisingSeriesSilent ==
    /\ AllZero(frac, Len(high))
    /\ ReturnsZeros(frac5, Len(high))
    /\ Len(Segments(frac)) <= 1
    /\ Len(Segments(frac5.out)) <= 1
    /\ ReturnsZeros(sig.basic, Len(high))
    /\ ReturnsZeros(sig.bixia, Len(high))
    /\ ReturnsZeros(sig.ext, Len(high))

\* a rising series long enough for candidate marking to run, with wide and
\* flat bars in it, on which the detector ran through validation
RisingSeriesMarked ==
    /\ Len(high) >= 10
    /\ "validate" \in ran
    /\ \E k \in 1..Len(high) : high[k] - low[k] >= Eps
    /\ \A k \in 2..Len(high) : high[k] > high[k - 1] + Eps /\ low[k] > low[k - 1] + Eps
    /\ AllZero(frac, Len(high))

\* the ends of the down-segments of a turning-point array: the troughs whose
\* nearest earlier turning point is a peak
DownEnds(fr) ==
    {t \in 1..Len(fr) :
       /\ fr[t] = -1
       /\ \E p \in 1..(t - 1) : fr[p] = 1 /\ \A m \in (p + 1)..(t - 1) : fr[m] = 0}

\* the start of the down-segment ending at t: the earliest peak with no
\* trough between it and t
DownStart(fr, t) ==
    CHOOSE p \in 1..(t - 1) :
       /\ fr[p] = 1
       /\ \A m \in (p + 1)..(t - 1) : fr[m] # -1
       /\ \A q \in 1..(p - 1) : fr[q] = 1 => \E m \in (q + 1)..(p - 1) : fr[m] = -1

\* the n-th most recent member of a set of positions
NthLatest(S, n) == CHOOSE t \in S : Cardinality({u \in S : u > t}) = n - 1

\* C7: given at least 3 down-segments, three-buy-basic returns +1 at the
\* last index and 0 elsewhere exactly when the trough lows of the three most
\* recent down-segments strictly decrease from oldest to newest and the last
\* bar's high is strictly above the starting-peak high of at least one of
\* the two most recent down-segments; otherwise it returns all zeros.
ThreeBuyBasicRule ==
    LET ends == DownEnds(frac)
        n == Len(high)
    IN Cardinality(ends) >= 3 =>
          LET latest == NthLatest(ends, 1)
              prev == NthLatest(ends, 2)
              prev2 == NthLatest(ends, 3)
              decreasing == low[prev2] > low[prev] /\ low[prev] > low[latest]
              breakout == \/ high[n] > high[DownStart(frac, latest)]
                          \/ high[n] > high[DownStart(frac, prev)]
          IN /\ ~sig.basic.raised
             /\ Len(sig.basic.out) = n
             /\ \A k \in 1..n :
                   sig.basic.out[k] = IF k = n /\ decreasing /\ breakout THEN 1 ELSE 0

\* three-buy-basic fired on a window whose last bar is not a turning point
ThreeBuyBasicFired ==
    /\ Cardinality(DownEnds(frac)) >= 3
    /\ frac[Len(frac)] = 0
    /\ sig.basic.out[Len(high)] = 1

AlertCount(log, full_code) ==
    Cardinality({k \in 1..Len(log) : log[k][2] = full_code})

\* C11: in the three three-buy scanners triggered_stocks never shrinks, a
\* code in triggered_stocks is never alerted again, and a code none of whose
\* alerts failed has been alerted at most once, over every sequence of
\* polling cycles and matcher results.
AlertedAtMostOnce ==
    [][/\ triggered_stocks \subseteq triggered_stocks'
       /\ \A c \in triggered_stocks :
             AlertCount(alerts', c) = AlertCount(alerts, c)
       /\ \A k \in 1..Len(StockList) :
             AlertCount(failures', StockList[k]) = 0
                => AlertCount(alerts', StockList[k]) <= 1]_vars

\* the matcher signalled for a code alerted in an earlier cycle, and no
\* alert was raised for it this time
SignalSuppressed ==
    /\ scanner \in ThreeBuyScanners
    /\ pos >= 1
    /\ ok
    /\ failures = <<>>
    /\ LET full_code == StockList[pos]
       IN /\ full_code \in triggered_stocks
          /\ AlertCount(alerts, full_code) = 1
          /\ \E k \in 1..Len(alerts) : alerts[k] = <<cycle - 1, full_code>>

\* C12: in the bottom-fractal scanner a code that is already in
\* triggered_stocks is not alerted again in a later cycle.
BottomNotRefired ==
    [][\A c \in triggered_stocks :
          AlertCount(alerts', c) = AlertCount(alerts, c)]_vars

\* the 0-based indices of the turning points of a turning-point array
TurnIndices(fr) == {k \in 0..(Len(fr) - 1) : fr[k + 1] # 0}

\* C13: every segment of the greedy builder has its start strictly before
\* its end, start and end of opposite kinds, and the direction of its start
\* (Down, recorded as 1, exactly when the start is a Peak); the first segment
\* starts at the first turning point, each later segment starts at the
\* previous segment's end, each end is the nearest later turning point of
\* the opposite kind, and the turning points after the last segment's end
\* (all of the end's kind) belong to no segment.
SegmentsWellFormed ==
    LET segs == Segments(frac)
        tps == TurnIndices(frac)
    IN /\ \A k \in 1..Len(segs) :
             LET start == segs[k][1]
                 end == segs[k][2]
             IN /\ start \in tps /\ end \in tps
                /\ start < end
                /\ frac[start + 1] = -frac[end + 1]
                /\ (segs[k][3] = 1) = (frac[start + 1] = 1)
                /\ segs[k][3] = frac[start + 1]
                /\ \A m \in tps : start < m /\ m < end => frac[m + 1] = frac[start + 1]
                /\ k > 1 => start = segs[k - 1][2]
                /\ k = 1 => \A m \in tps : start <= m
       /\ segs # <<>> =>
             \A m \in tps : m > Last(segs)[2] => frac[m + 1] = frac[Last(segs)[2] + 1]
       /\ segs = <<>> => \A m, q \in tps : frac[m + 1] = frac[q + 1]

\* three segments, one of which skips a turning point of its start's kind,
\* followed by a turning point that is dropped
SegmentsSkipAndDrop ==
    LET segs == Segments(frac)
        tps == TurnIndices(frac)
    IN /\ Len(segs) >= 3
       /\ \E k \in 1..Len(segs) : \E m \in tps : segs[k][1] < m /\ m < segs[k][2]
       /\ \E m \in tps : m > Last(segs)[2]

\* C14: three-buy-extended returns either all zeros or exactly two non-zero
\* entries, +1 at the end of the most recent down-segment and -1 at its
\* start, the -1 at a strictly lower index than the +1.
ExtendedMarksLatestSegment ==
    LET out == sig.ext.out
        n == Len(frac)
        ends == DownEnds(frac)
    IN /\ ~sig.ext.raised
       /\ Len(out) = n
       /\ \/ AllZero(out, n)
          \/ /\ ends # {}
             /\ LET end == NthLatest(ends, 1)
                    start == DownStart(frac, end)
                IN /\ start < end
                   /\ out[start] = -1
                   /\ out[end] = 1
                   /\ \A k \in 1..n : k \notin {start, end} => out[k] = 0
                   /\ Cardinality({k \in 1..n : out[k] # 0}) = 2

\* three-buy-extended marked a segment that is followed by further bars
ExtendedFired ==
    /\ \E k \in 1..Len(frac) : sig.ext.out[k] = 1
    /\ \E k \in 1..Len(frac) : sig.ext.out[k] = -1
    /\ sig.ext.out[Len(frac)] = 0

\* C15: bi-xia emits +1 at the last bar only when the newest down-segment's
\* trough low is strictly below the previous down-segment's trough low, and
\* returns all zeros whenever the newest trough is equal to or above the
\* previous one.
BixiaNewestTroughBelow ==
    LET ends == DownEnds(frac)
        n == Len(high)
    IN Cardinality(ends) >= 2 =>
          LET latest_low == low[NthLatest(ends, 1)]
              prev_low == low[NthLatest(ends, 2)]
          IN /\ ~sig.bixia.raised
             /\ (\E k \in 1..n : sig.bixia.out[k] # 0) => latest_low < prev_low
             /\ latest_low >= prev_low => AllZero(sig.bixia.out, n)

RECURSIVE RetestStep(_, _, _, _)
\* the reference validator's step: a candidate is pushed on an empty stack,
\* discarded when of the top's kind, pushed when a Peak exceeds the Trough on
\* top (a Trough is below the Peak on top) by more than eps; otherwise the
\* top is popped and the same candidate is tested again
RetestStep(stack, cand, mh, ml) ==
    IF stack = <<>> THEN <<cand>>
    ELSE LET top == stack[Len(stack)]
             holds == IF cand[2] = 1
                      THEN mh[cand[1] + 1] > ml[top[1] + 1] + Eps
                      ELSE ml[cand[1] + 1] < mh[top[1] + 1] - Eps
         IN IF top[2] = cand[2] THEN stack
            ELSE IF holds THEN Append(stack, cand)
            ELSE RetestStep(SubSeq(stack, 1, Len(stack) - 1), cand, mh, ml)

RECURSIVE RetestUpTo(_, _, _, _)
RetestUpTo(cands, mh, ml, n) ==
    IF n = 0 THEN <<>>
    ELSE RetestStep(RetestUpTo(cands, mh, ml, n - 1), cands[n], mh, ml)

\* C16: whenever gupiaojichu.identify_turns reaches the validation stage, its
\* validated list equals that of the reference validator, which after each
\* pop tests the same candidate again (pushing it when the stack has become
\* empty or the inequality holds against the new top).
ValidationRetests ==
    "validate" \in ran =>
       LET st == TurnStages(Len(high), high, low)
       IN st.validated_turns
            = RetestUpTo(st.new_turns, st.merged_high, st.merged_low,
                         Len(st.new_turns))

\* the neighbours (0-based merged indices) of merged bar k among n merged
\* bars: the WindowSize bars before it and, for an interior bar, the
\* WindowSize bars after it
Neighbours(k, n) ==
    {m \in 0..(n - 1) :
       \/ k - WindowSize <= m /\ m < k
       \/ k < n - WindowSize /\ k < m /\ m <= k + WindowSize}

PeakPredicate(mh, k) ==
    \A m \in Neighbours(k, Len(mh)) : mh[k + 1] >= mh[m + 1] - Eps

TroughPredicate(ml, k) ==
    \A m \in Neighbours(k, Len(ml)) : ml[k + 1] <= ml[m + 1] + Eps

\* C17: in the candidate marking of gupiaojichu.identify_turns (interior bars
\* and the trailing WindowSize bars) a merged bar that satisfies both the
\* Peak and the Trough predicate is marked Peak only, and no merged bar index
\* appears more than once in the candidate list.
BothMarkedPeakOnly ==
    "mark" \in ran =>
       LET st == TurnStages(Len(high), high, low)
           turns == st.turns
           n == Len(st.merged_high)
       IN /\ \A k \in WindowSize..(n - 1) :
                PeakPredicate(st.merged_high, k) /\ TroughPredicate(st.merged_low, k)
                   => /\ \E a \in 1..Len(turns) : turns[a] = <<k, 1>>
                      /\ \A a \in 1..Len(turns) : turns[a] # <<k, -1>>
          /\ \A a, b \in 1..Len(turns) : a # b => turns[a][1] # turns[b][1]

\* an interior bar and a trailing bar each satisfy both predicates, next to
\* a bar marked Trough
BothPredicatesHold ==
    /\ "mark" \in ran
    /\ LET st == TurnStages(Len(high), high, low)
           n == Len(st.merged_high)
       IN /\ \E k \in WindowSize..(n - WindowSize - 1) :
                PeakPredicate(st.merged_high, k) /\ TroughPredicate(st.merged_low, k)
          /\ \E k \in (n - WindowSize)..(n - 1) :
                PeakPredicate(st.merged_high, k) /\ TroughPredicate(st.merged_low, k)
          /\ \E a \in 1..Len(st.turns) : st.turns[a][2] = -1

\* the next step of the scan feeds a non-flat bar whose range is contained
\* in, or contains, the range of a non-flat tail
ContainedBarFed ==
    /\ merged # <<>>
    /\ Len(high') = Len(high) + 1
    /\ Abs(Last(high') - Last(low')) >= Eps
    /\ ~Last(merged).is_same_value
    /\ \/ Last(high') <= Last(merged).high + Eps /\ Last(low') >= Last(merged).low - Eps
       \/ Last(merged).high <= Last(high') + Eps /\ Last(merged).low >= Last(low') - Eps

\* the tail is strictly above (dir = 1) or strictly below (dir = -1) the
\* entry before it
TailTrend(dir) ==
    /\ Len(merged) >= 2
    /\ LET last_bar == merged[Len(merged)]
           prev_last == merged[Len(merged) - 1]
       IN IF dir = 1
          THEN last_bar.high > prev_last.high + Eps /\ last_bar.low > prev_last.low + Eps
          ELSE last_bar.high < prev_last.high - Eps /\ last_bar.low < prev_last.low - Eps

\* the step replaces the tail by a non-flat bar with the given high, low and
\* orig_idx and leaves the entries before it alone
TailReplacedBy(h, l, idx) ==
    /\ Len(merged') = Len(merged)
    /\ SubSeq(merged', 1, Len(merged) - 1) = SubSeq(merged, 1, Len(merged) - 1)
    /\ Last(merged') = [high |-> h, low |-> l, orig_idx |-> idx, is_same_value |-> FALSE]

\* C18: whenever a contained non-flat bar is merged into the tail under a
\* neutral trend (the output holds one entry, or two or more with the tail
\* neither strictly above nor strictly below the entry before it), the merged
\* bar has the max of the two highs, the min of the two lows, and the tail's
\* orig_idx if the tail's high attains the maximum within eps, otherwise the
\* current bar's index.
NeutralMergeMaxHighRule ==
    [][ContainedBarFed /\ ~TailTrend(1) /\ ~TailTrend(-1)
          => LET max_high == Max2(Last(merged).high, Last(high'))
             IN TailReplacedBy(max_high, Min2(Last(merged).low, Last(low')),
                               IF Abs(max_high - Last(merged).high) < Eps
                               THEN Last(merged).orig_idx
                               ELSE Len(high))]_vars

\* C19: when a contained non-flat bar is merged and the tail is strictly
\* above the entry before it, the merged bar has the max of the two highs and
\* the max of the two lows, with the orig_idx of the bar attaining the max
\* high (the tail's on a tie within eps); when the tail is strictly below the
\* entry before it, it has the min of the two highs and the min of the two
\* lows, with the orig_idx of the bar attaining the min low (the tail's on a
\* tie within eps).
TrendMergeRule ==
    [][/\ ContainedBarFed /\ TailTrend(1)
          => LET max_high == Max2(Last(merged).high, Last(high'))
             IN TailReplacedBy(max_high, Max2(Last(merged).low, Last(low')),
                               IF Abs(max_high - Last(merged).high) < Eps
                               THEN Last(merged).orig_idx
                               ELSE Len(high))
       /\ ContainedBarFed /\ TailTrend(-1)
          => LET min_low == Min2(Last(merged).low, Last(low'))
             IN TailReplacedBy(Min2(Last(merged).high, Last(high')), min_low,
                               IF Abs(min_low - Last(merged).low) < Eps
                               THEN Last(merged).orig_idx
                               ELSE Len(high))]_vars

\* the last step merged a bar that contains the tail under a down trend:
\* the merged bar kept the tail's high and took the bar's lower low and its
\* index
DownTrendMergeDone ==
    /\ Len(high) >= 3
    /\ LET before == MergeUpTo(high, low, Len(high) - 1)
       IN /\ Len(before) >= 2
          /\ Len(merged) = Len(before)
          /\ ~Last(before).is_same_value
          /\ Abs(Last(high) - Last(low)) >= Eps
          /\ Last(before).high < before[Len(before) - 1].high - Eps
          /\ Last(before).low < before[Len(before) - 1].low - Eps
          /\ Last(high) > Last(before).high
          /\ Last(low) < Last(before).low
          /\ Last(merged).high = Last(before).high
          /\ Last(merged).low = Last(low)
          /\ Last(merged).orig_idx = Len(high) - 1

\* every output entry marked flat has the high and low of one flat input bar
FlatEntriesFromInput ==
    \A k \in 1..Len(merged) :
       merged[k].is_same_value =>
          \E b \in 1..Len(high) :
             /\ Abs(high[b] - low[b]) < Eps
             /\ merged[k].high = high[b]
             /\ merged[k].low = low[b]

\* C20: a flat bar is never combined with a non-flat bar: whenever exactly
\* one of the current bar and the output tail is flat, the current bar is
\* appended unchanged as a new entry (the output grows by one, the tail is
\* untouched), also when its range is contained in or contains the tail's;
\* and every output entry marked flat has high and low equal to those of a
\* single flat input bar.
FlatNeverCombined ==
    [][/\ (/\ merged # <<>>
           /\ Len(high') = Len(high) + 1
           /\ (Abs(Last(high') - Last(low')) < Eps) # Last(merged).is_same_value)
          => merged' = Append(merged,
                              [high |-> Last(high'), low |-> Last(low'),
                               orig_idx |-> Len(high),
                               is_same_value |-> Abs(Last(high') - Last(low')) < Eps])
       /\ FlatEntriesFromInput']_vars

\* the last two steps appended a flat bar lying inside the range of the
\* non-flat tail, and then a non-flat bar whose range contains the flat bar
FlatKeptApart ==
    /\ Len(high) >= 3
    /\ Len(merged) >= 3
    /\ LET n == Len(merged)
       IN /\ ~merged[n - 2].is_same_value
          /\ merged[n - 1].is_same_value
          /\ ~merged[n].is_same_value
          /\ merged[n - 1].orig_idx = Len(high) - 2
          /\ merged[n].orig_idx = Len(high) - 1
          /\ merged[n - 1].high <= merged[n - 2].high
          /\ merged[n - 1].low >= merged[n - 2].low
          /\ merged[n - 1].high <= merged[n].high
          /\ merged[n - 1].low >= merged[n].low

\* C30: at the end of every loop iteration of sliding_max (sliding_min), the
\* deque holds strictly increasing indices, all within (k-W, k] for the index
\* k just processed, its back is k, the values at those indices are strictly
\* decreasing (strictly increasing) from front to back, and it holds at most
\* W indices.
DequeMonotone ==
    i >= 1 =>
       LET k == i - 1
       IN /\ dq # <<>>
          /\ dq[Len(dq)] = k
          /\ Len(dq) <= window_size
          /\ \A j \in 1..Len(dq) : k - window_size < dq[j] /\ dq[j] <= k
          /\ \A j \in 1..(Len(dq) - 1) :
                /\ dq[j] < dq[j + 1]
                /\ IF mode = "max"
                   THEN arr[dq[j] + 1] > arr[dq[j + 1] + 1]
                   ELSE arr[dq[j] + 1] < arr[dq[j + 1] + 1]

\* a full deque whose front is about to leave the window, in a call where an
\* earlier iteration popped an equal value from the back
DequeFull ==
    /\ i = Len(arr)
    /\ window_size >= 2
    /\ Len(dq) = window_size
    /\ dq[1] > 0
    /\ \E k \in 1..(Len(arr) - 1) : arr[k] = arr[k + 1]

\* entry b is strictly above (dir = 1) or strictly below (dir = -1) entry a,
\* in both its high and its low
StrictlyBeyond(a, b, dir) ==
    IF dir = 1
    THEN b.high > a.high + Eps /\ b.low > a.low + Eps
    ELSE b.high < a.high - Eps /\ b.low < a.low - Eps

\* one of the two ranges lies inside the other, within eps
InContainment(a, b) ==
    \/ b.high <= a.high + Eps /\ b.low >= a.low - Eps
    \/ a.high <= b.high + Eps /\ a.low >= b.low - Eps

\* C26: after every step of merge_contained_bars no two adjacent output
\* entries that are both non-flat are in a containment relation within eps:
\* the later one has both its high and its low strictly above, or both
\* strictly below, those of the earlier one; so a tail that is neither (the
\* neutral trend) with two or more entries has a flat entry before it.
AdjacentNotContained ==
    \A k \in 2..Len(merged) :
       ~merged[k - 1].is_same_value /\ ~merged[k].is_same_value
          => /\ ~InContainment(merged[k - 1], merged[k])
             /\ \/ StrictlyBeyond(merged[k - 1], merged[k], 1)
                \/ StrictlyBeyond(merged[k - 1], merged[k], -1)

\* two bars were merged into one entry that stays strictly below the
\* non-flat entry before it
MergedStaysBelow ==
    /\ Len(high) = 3
    /\ Len(merged) = 2
    /\ ~merged[1].is_same_value
    /\ ~merged[2].is_same_value
    /\ merged[2].orig_idx = 2
    /\ StrictlyBeyond(merged[1], merged[2], -1)

StackWellFormed(stack, mh, ml) ==
    \A k \in 2..Len(stack) :
       LET a == stack[k - 1]
           b == stack[k]
           peak == IF a[2] = 1 THEN a ELSE b
           trough == IF a[2] = 1 THEN b ELSE a
       IN /\ a[1] < b[1]
          /\ a[2] = -b[2]
          /\ a[2] \in {1, -1}
          /\ mh[peak[1] + 1] > ml[trough[1] + 1] + Eps

\* C28: at every step of the alternation validation of
\* gupiaojichu.identify_turns the validated stack is ordered by strictly
\* increasing merged index, its entries strictly alternate in kind, and every
\* adjacent Peak/Trough pair has peak merged high > trough merged low + eps,
\* also after backtracking pops.
ValidatedStackWellFormed ==
    "validate" \in ran =>
       LET st == TurnStages(Len(high), high, low)
       IN \A n \in 0..Len(st.new_turns) :
             StackWellFormed(ValidateUpTo(st.new_turns, st.merged_high,
                                          st.merged_low, n),
                             st.merged_high, st.merged_low)

\* a step of the validation popped the top of a stack of three or more, and
\* a later step pushed on the shortened stack
PoppedThenPushed ==
    /\ "validate" \in ran
    /\ LET st == TurnStages(Len(high), high, low)
           stackAt(n) == ValidateUpTo(st.new_turns, st.merged_high, st.merged_low, n)
       IN \E n \in 1..(Len(st.new_turns) - 1) :
             /\ Len(stackAt(n - 1)) >= 3
             /\ Len(stackAt(n)) = Len(stackAt(n - 1)) - 1
             /\ Len(stackAt(n + 1)) = Len(stackAt(n)) + 1

\* C22: any two consecutive non-zero entries of the array returned by
\* gu_piao_5M_data.identify_turns (zeros between them ignored) have opposite
\* signs, also when one bar is at once the highest high and the lowest low
\* of its neighbourhood.
BasicTurnsAlternate ==
    \A a, b \in 1..Len(frac5.out) :
        Consecutive(frac5.out, a, b) => frac5.out[a] = -frac5.out[b]

\* C24: three-buy-basic compares prices with the tolerance eps: it signals
\* only when each of the three most recent trough lows is below the one
\* before it by at least eps (lows closer than eps count as equal) and the
\* last bar's high is above the starting-peak high of one of the two most
\* recent down-segments by at least eps.
ThreeBuyBasicUsesEps ==
    LET ends == DownEnds(frac)
        n == Len(high)
    IN (Cardinality(ends) >= 3 /\ ~sig.basic.raised /\ sig.basic.out[n] = 1) =>
          LET latest == NthLatest(ends, 1)
              prev == NthLatest(ends, 2)
              prev2 == NthLatest(ends, 3)
          IN /\ low[prev2] - low[prev] >= Eps
             /\ low[prev] - low[latest] >= Eps
             /\ \/ high[n] - high[DownStart(frac, latest)] >= Eps
                \/ high[n] - high[DownStart(frac, prev)] >= Eps

\* C25: gupiaojichu.identify_turns(data_len, high, low) raises, and returns
\* no array, whenever high and low differ in length or data_len differs
\* from their length, data_len < 6 included.
MismatchedTurnsCallRaises ==
    (Len(high) # Len(low) \/ turns_call.data_len # Len(high)) =>
       turns_call.raised /\ turns_call.out = <<>>

\* C21: a finished get_5min_data / get_kline_data call has returned bars
\* whenever at least one server of self.servers would connect and return
\* bars, and has returned the no-data result only after trying every server.
FetchTriesEveryServer ==
    (fetches > 0 /\ fetched # "running") =>
       /\ (\E k \in 1..Len(Servers) : outcomes[k] = "bars") => fetched = "bars"
       /\ fetched = "none" => tried = Len(Servers)

\* C29: after every row processed by run_backtest, position >= 0, cash >= 0
\* and in_position is true exactly when position > 0; a buy was executed
\* only while flat, a sell (stop-loss or strategy) only while holding, and
\* every sell sold the whole position.
BacktestAccountsConsistent ==
    /\ position >= 0
    /\ cash >= 0
    /\ in_position <=> position > 0
    /\ \A k \in 1..Len(trades) :
          LET t == trades[k]
          IN IF t.op = "buy"
             THEN ~t.was_in /\ t.held = 0 /\ t.num > 0
             ELSE t.was_in /\ t.held > 0 /\ t.num = t.held
    /\ (trades # <<>> /\ trades[Len(trades)].op # "buy") => position = 0

\* a row hit the stop-loss, sold the whole position and bought again on the
\* same row's buy signal
StoppedOutAndReentered ==
    /\ Len(trades) = 2
    /\ trades[1].op = "stop_sell" /\ trades[2].op = "buy"
    /\ position > 0 /\ in_position

\* C23: the backtest signal generators have no look-ahead: when bars are
\* appended to the series, the values calculate_three_buy_signals and
\* calculate_dynamic_sell_signals give at the indices already present stay
\* the same, whatever the appended bars are. Two series that agree on
\* indices 0..k therefore get the same value at index k.
SignalsWithoutLookAhead ==
    [][\A k \in 1..Len(high) :
          /\ buy_signals'[k] = buy_signals[k]
          /\ sell_signals'[k] = sell_signals[k]]_vars

\* a buy signal and a sell signal stand at indices that later bars followed
SignalsBeforeLastBar ==
    /\ \E k \in 1..(Len(high) - 1) : buy_signals[k] = 1
    /\ \E k \in 1..(Len(high) - 1) : sell_signals[k]
    /\ \E k \in MinSellWindow..(Len(high) - 1) : ~sell_signals[k]

====
